---- MODULE Spec2Model ----
(***************************************************************************)
(* Model of googlephotos2nextcloud (src/src/googlephotos2nextcloud.go,     *)
(* the second program of the file, lines 240-730).                         *)
(*                                                                         *)
(* Strings of the program (timestamps, buckets, paths, URLs) are modelled  *)
(* as sequences of one-character strings, so that strings.Split,           *)
(* strings.Contains, time.Parse and Format are computed, not assumed.      *)
(*                                                                         *)
(* Spec         uploadMediaFilesToNextcloud and main's report: the two     *)
(*              worker pools, their channels and wait groups, the WebDAV    *)
(*              server's answers.                                           *)
(* SpecResolve  processDirectory: the scan, the two resolvers and the       *)
(*              normalization that build myMap.                             *)
(***************************************************************************)
EXTENDS Integers, Sequences, FiniteSets, TLC

(***************************************************************************)
(* Bounds of the model.                                                    *)
(***************************************************************************)
\* largest value of PARALLEL_UPLOADS explored
MaxParallel == 2
\* largest number of entries of myMap explored in the upload phases
MaxFiles == 2
\* largest number of MKCOL requests the server fails in one run
MaxFaults == 1
\* largest number of entries below the root of the source tree
MaxEntries == 4

(***************************************************************************)
(* Strings.                                                                *)
(***************************************************************************)
Slash == "/"

RECURSIVE SplitAcc(_, _, _)
SplitAcc(s, sep, cur) ==
    IF s = <<>> THEN <<cur>>
    ELSE IF Head(s) = sep
         THEN <<cur>> \o SplitAcc(Tail(s), sep, <<>>)
         ELSE SplitAcc(Tail(s), sep, Append(cur, Head(s)))

\* strings.Split(s, sep) for a one-character separator
Split(s, sep) == SplitAcc(s, sep, <<>>)

\* strings.Contains(s, sub)
Contains(s, sub) ==
    \E i \in 1..(Len(s) - Len(sub) + 1) : SubSeq(s, i, i + Len(sub) - 1) = sub

\* index of the last occurrence of character c in s, 0 when absent
LastIndex(s, c) ==
    IF \E i \in 1..Len(s) : s[i] = c
    THEN CHOOSE i \in 1..Len(s) : s[i] = c /\ \A j \in (i+1)..Len(s) : s[j] # c
    ELSE 0

\* strings.Count(s, c) for a one-character c
RECURSIVE Count(_, _)
Count(s, c) ==
    IF s = <<>> THEN 0
    ELSE (IF Head(s) = c THEN 1 ELSE 0) + Count(Tail(s), c)

Dot == "."

\* filepath.Base(path) of a clean path: what follows the last separator
Base(path) == SubSeq(path, LastIndex(path, Slash) + 1, Len(path))

\* filepath.Dir(path) of a clean absolute path below the root
Dir(path) == SubSeq(path, 1, LastIndex(path, Slash) - 1)

\* filepath.Ext(name): the suffix beginning at the final dot, "" without a dot
Ext(name) ==
    IF LastIndex(name, Dot) = 0 THEN <<>>
    ELSE SubSeq(name, LastIndex(name, Dot), Len(name))

\* filepath.Join(dir, name) of a clean dir and a name without separators:
\* empty elements are ignored
Join(dir, name) == IF name = <<>> THEN dir ELSE dir \o <<Slash>> \o name

(***************************************************************************)
(* Decimal numbers and dates (strconv.ParseInt, time.Parse, time.Unix,     *)
(* Time.Format).                                                           *)
(***************************************************************************)
DigitChars == <<"0","1","2","3","4","5","6","7","8","9">>

IsDigit(c) == \E i \in 1..10 : DigitChars[i] = c

DigitVal(c) == (CHOOSE i \in 1..10 : DigitChars[i] = c) - 1

AllDigits(s) == \A i \in 1..Len(s) : IsDigit(s[i])

\* the value of a string of digits
RECURSIVE ToNat(_)
ToNat(s) ==
    IF s = <<>> THEN 0
    ELSE 10 * ToNat(SubSeq(s, 1, Len(s) - 1)) + DigitVal(s[Len(s)])

\* the decimal digits of n
RECURSIVE Digits(_)
Digits(n) == IF n < 10 THEN <<DigitChars[n + 1]>>
             ELSE Append(Digits(n \div 10), DigitChars[(n % 10) + 1])

\* n in decimal, zero-padded to at least width digits (Format's "2006", "01")
RECURSIVE Pad(_, _)
Pad(ds, width) == IF Len(ds) >= width THEN ds ELSE Pad(<<"0">> \o ds, width)

\* Time.Format("2006/01")
FormatYearMonth(year, month) == Pad(Digits(year), 4) \o <<Slash>> \o Pad(Digits(month), 2)

IsLeap(y) == (y % 4 = 0 /\ y % 100 # 0) \/ y % 400 = 0

DaysIn(y, m) ==
    IF m = 2 THEN (IF IsLeap(y) THEN 29 ELSE 28)
    ELSE IF m \in {4, 6, 9, 11} THEN 30 ELSE 31

\* time.Parse("2006-01-02T15:04:05Z", ts): the date as <<year, month>>, or <<>>
\* for an error.  Every field has a fixed width in this layout and must be in
\* range.  (A fraction after the seconds, which time.Parse also accepts, is
\* not modelled: no timestamp of the model has one.)
ParseISO(ts) ==
    IF /\ Len(ts) = 20
       /\ ts[5] = "-" /\ ts[8] = "-" /\ ts[11] = "T"
       /\ ts[14] = ":" /\ ts[17] = ":" /\ ts[20] = "Z"
       /\ \A i \in {1,2,3,4,6,7,9,10,12,13,15,16,18,19} : IsDigit(ts[i])
    THEN LET y == ToNat(SubSeq(ts, 1, 4))
             m == ToNat(SubSeq(ts, 6, 7))
             d == ToNat(SubSeq(ts, 9, 10))
         IN IF /\ m \in 1..12
               /\ d \in 1..DaysIn(y, m)
               /\ ToNat(SubSeq(ts, 12, 13)) < 24
               /\ ToNat(SubSeq(ts, 15, 16)) < 60
               /\ ToNat(SubSeq(ts, 18, 19)) < 60
            THEN <<y, m>>
            ELSE <<>>
    ELSE <<>>

\* the largest number of digits of an epoch the model converts (the day number
\* must fit TLC's integers); ParseInt itself accepts up to 19
MaxEpochDigits == 13

\* strconv.ParseInt(ts, 10, 64) succeeds: an optional sign and at least one digit
IsInt(ts) ==
    LET ds == IF ts # <<>> /\ Head(ts) \in {"+", "-"} THEN Tail(ts) ELSE ts
    IN ds # <<>> /\ AllDigits(ds) /\ Len(ds) <= MaxEpochDigits

\* whole days (rounded down) in the seconds written by the digits ds, computed
\* digit by digit as <<days, seconds of the day>>
RECURSIVE DaysAndSeconds(_)
DaysAndSeconds(ds) ==
    IF ds = <<>> THEN <<0, 0>>
    ELSE LET prev == DaysAndSeconds(SubSeq(ds, 1, Len(ds) - 1))
             secs == prev[2] * 10 + DigitVal(ds[Len(ds)])
         IN <<prev[1] * 10 + secs \div 86400, secs % 86400>>

\* the day number (days since 1970-01-01, UTC) of the epoch second written in ts
EpochDay(ts) ==
    LET neg == Head(ts) = "-"
        ds == IF Head(ts) \in {"+", "-"} THEN Tail(ts) ELSE ts
        dsec == DaysAndSeconds(ds)
    IN IF ~neg THEN dsec[1]
       ELSE IF dsec[2] = 0 THEN 0 - dsec[1] ELSE 0 - dsec[1] - 1

\* time.Unix(epoch, 0), formatted in the local zone, which is UTC in the
\* image the Dockerfile builds (distroless, no TZ): <<year, month>> of a day
\* number (the civil calendar; years 1 and later)
CivilFromDays(days) ==
    LET z == days + 719468
        era == z \div 146097
        doe == z - era * 146097
        yoe == (doe - doe \div 1460 + doe \div 36524 - doe \div 146096) \div 365
        doy == doe - (365 * yoe + yoe \div 4 - yoe \div 100)
        mp == (5 * doy + 2) \div 153
        m == IF mp < 10 THEN mp + 3 ELSE mp - 9
        y == yoe + era * 400 + (IF m <= 2 THEN 1 ELSE 0)
    IN <<y, m>>

\* extractDateFolder (lines 309-323): [ok |-> TRUE, folder |-> "YYYY/MM"], or
\* [ok |-> FALSE, folder |-> ""] for the error
extractDateFolder(timestamp) ==
    IF ParseISO(timestamp) # <<>>
    THEN [ok |-> TRUE,
          folder |-> FormatYearMonth(ParseISO(timestamp)[1], ParseISO(timestamp)[2])]
    ELSE IF ~IsInt(timestamp)
    THEN [ok |-> FALSE, folder |-> <<>>]
    ELSE LET ym == CivilFromDays(EpochDay(timestamp))
         IN [ok |-> TRUE, folder |-> FormatYearMonth(ym[1], ym[2])]

\* the buckets of the upload phases: values processDirectory leaves in myMap
B2024_01 == <<"2","0","2","4","/","0","1">>
B2024_02 == <<"2","0","2","4","/","0","2">>
BEmpty == <<>>

\* "" is what parseExtractMetadatJsonFileAndAddToMapImage stores for a sidecar
\* whose photoTakenTime does not parse
UploadBucketSeq == <<B2024_01, B2024_02, BEmpty>>

\* local media paths of the upload phases
PathA == <<"/","p","/","a">>
PathB == <<"/","p","/","b">>
PathC == <<"/","p","/","c">>
PathD == <<"/","p","/","d">>
UploadPathSeq == <<PathA, PathB, PathC, PathD>>

(***************************************************************************)
(* HTTP statuses the program names or compares against.                    *)
(***************************************************************************)
StatusOK == 200
StatusCreated == 201
StatusNoContent == 204
StatusNotFound == 404
StatusMethodNotAllowed == 405
StatusConflict == 409
StatusInternalServerError == 500
StatusGatewayTimeout == 504
\* client.Do returned an error instead of a response
TransportErr == 0

VARIABLES
    parallelUploads,   \* strconv.Atoi(PARALLEL_UPLOADS)
    myMap,             \* PathIndex: local path -> bucket
    directories,       \* result of getUniqueDirectoryToBecreatedOnNextCloud
    successfullCounter,
    failedCounter,
    mainPc,            \* position of main / uploadMediaFilesToNextcloud
    dirJobs,           \* channel dirJobs: buffered contents
    dirJobsClosed,
    dirSent,           \* number of directories main has sent
    wgDir,             \* counter of sync.WaitGroup wgDir
    dpc,               \* position of each directory goroutine
    dParts,            \* createNestedDirectories: parts still to visit
    dPath,             \* createNestedDirectories: currentPath, relative to baseURL
    dJob,              \* the directory a directory goroutine is working on
    collections,       \* the server: collections that exist under baseURL
    faults,            \* the server: MKCOL requests failed so far
    dOk,               \* history: the paths whose MKCOL returned nil to this job
    created,           \* history: collection path -> number of 201 answers
    dirEnded,          \* history: directory -> "running", "nil" (createNestedDirectories
                       \*          returned nil) or "error" (it returned an error)
    wrongAbandon,      \* history: a job returned an error on a 200/201/204/405 answer
    jobs,              \* channel jobs: buffered contents
    jobsClosed,
    toSend,            \* sender goroutine: keys of myMap not yet sent
    progressChan,      \* channel progressChan: buffered contents
    progressClosed,
    wgMedia,           \* counter of sync.WaitGroup wgMedia
    upc,               \* position of each upload worker
    uJob,              \* worker: the MediaFile received
    attempt,           \* uploadFile: loop variable attempt
    tmp,               \* worker: value read from a counter by an increment
    finishCounter,     \* uploadMediaFilesToNextcloud: finishCounter
    panicked,          \* a goroutine panicked (send on a closed channel)
    putCount,          \* history: path -> number of PUT requests sent
    resp,              \* history: path -> classes of the answers received
    retries,           \* history: path -> number of "Retrying..." branches taken
    succIncs,          \* history: path -> increments of successfullCounter
    failIncs,          \* history: path -> increments of failedCounter
    units,             \* history: path -> progress units sent
    rPc,               \* position of processDirectory
    tree,              \* the source tree: indices of TreePool that exist
    walkFailed,        \* history: filepath.Walk ended on an error
    jsonFileList,      \* processDirectory: jsonFileList
    mediaFileList,     \* processDirectory: mediaFileList
    jIdx,              \* parseExtractMetadatJsonFileAndAddToMapImage: loop index
    metadata,          \* parseExtractMetadatJsonFileAndAddToMapImage: metadata
    exifMEdiaFileList, \* processDirectory: exifMEdiaFileList
    eIdx,              \* parseExtractMediaFilesWithoutMedtadataJsonFileAddToMap: loop index
    afterSidecars,     \* history: myMap when the sidecar resolver returned
    sidecarWritten,    \* history: keys written by the sidecar resolver
    exifWritten        \* history: keys written by the fallback resolver

DirWorkers == 1..MaxParallel

dirVars == <<dirJobs, dirJobsClosed, dirSent, wgDir, dpc, dParts, dPath, dJob,
             collections, faults, dOk, created, dirEnded, wrongAbandon>>

upVars == <<jobs, jobsClosed, toSend, progressChan, progressClosed, wgMedia, upc, uJob,
            attempt, tmp, finishCounter, panicked, putCount, resp, retries, succIncs,
            failIncs, units>>

resVars == <<rPc, tree, walkFailed, jsonFileList, mediaFileList, jIdx, metadata,
             exifMEdiaFileList, eIdx, afterSidecars, sidecarWritten, exifWritten>>

\* what the steps of the first phase, of the second phase and of a counter
\* increment leave alone
dirFrame == <<parallelUploads, myMap, directories, successfullCounter, failedCounter,
              upVars, resVars>>
upFrame == <<parallelUploads, myMap, directories, successfullCounter, failedCounter,
             dirVars, resVars>>
counterFrame == <<parallelUploads, myMap, directories, dirVars, resVars, mainPc, jobs,
                  jobsClosed,
                  toSend, progressChan, progressClosed, wgMedia, uJob, attempt,
                  finishCounter, panicked, putCount, resp, retries, units>>

(***************************************************************************)
(* getUniqueDirectoryToBecreatedOnNextCloud: the distinct values of myMap, *)
(* in map iteration order (any order).                                     *)
(***************************************************************************)
Range(f) == {f[x] : x \in DOMAIN f}

IsPermutationOf(seq, S) ==
    /\ Len(seq) = Cardinality(S)
    /\ {seq[i] : i \in 1..Len(seq)} = S

getUniqueDirectoryToBecreatedOnNextCloud(m) ==
    {seq \in UNION {[1..n -> Range(m)] : n \in {Cardinality(Range(m))}} :
        IsPermutationOf(seq, Range(m))}

(***************************************************************************)
(* The WebDAV server's answer to MKCOL currentPath (the environment of     *)
(* createDirectoryIfNotExists, reached through client.Do).  A collection   *)
(* is created atomically: the request that finds it absent creates it and  *)
(* is answered 201; a request that finds it present is answered 405 or     *)
(* 204; a request whose parent is absent is answered 409.  The server may  *)
(* also fail a request (500, or no response at all), at most MaxFaults     *)
(* times in a run.                                                         *)
(***************************************************************************)
\* filepath-style parent of a collection path: "/2024/01" -> "/2024", "/2024" -> ""
ParentOf(path) == SubSeq(path, 1, LastIndex(path, Slash) - 1)

MkcolAnswers(path, cols, nfaults) ==
    (IF path \in cols
        THEN {[status |-> StatusMethodNotAllowed, cols |-> cols, faults |-> nfaults],
              [status |-> StatusNoContent, cols |-> cols, faults |-> nfaults]}
     ELSE IF ParentOf(path) # <<>> /\ ParentOf(path) \notin cols
        THEN {[status |-> StatusConflict, cols |-> cols, faults |-> nfaults]}
     ELSE {[status |-> StatusCreated, cols |-> cols \cup {path}, faults |-> nfaults]})
    \cup
    (IF nfaults < MaxFaults
        THEN {[status |-> StatusInternalServerError, cols |-> cols, faults |-> nfaults + 1],
              [status |-> TransportErr, cols |-> cols, faults |-> nfaults + 1]}
        ELSE {})

\* createDirectoryIfNotExists without the 405 case of line 513
createDirectoryIfNotExists_No405(answer) ==
    IF answer = TransportErr THEN FALSE
    ELSE IF answer = StatusNoContent THEN TRUE
    ELSE IF answer # StatusCreated /\ answer # StatusOK THEN FALSE
    ELSE TRUE

\* createDirectoryIfNotExists returning nil whatever the answer
createDirectoryIfNotExists_IgnoreError(answer) == TRUE

(***************************************************************************)
(* createDirectoryIfNotExists: the error result for an answer.             *)
(* TRUE = returns nil, FALSE = returns an error.                           *)
(***************************************************************************)
createDirectoryIfNotExists(answer) ==
    IF answer = TransportErr THEN FALSE
    ELSE IF answer = StatusMethodNotAllowed THEN TRUE
    ELSE IF answer = StatusNoContent THEN TRUE
    ELSE IF answer # StatusCreated /\ answer # StatusOK THEN FALSE
    ELSE TRUE

\* createNestedDirectories: the loop skips empty parts
RECURSIVE SkipEmptyParts(_)
SkipEmptyParts(parts) ==
    IF parts = <<>> THEN <<>>
    ELSE IF Head(parts) = <<>> THEN SkipEmptyParts(Tail(parts))
    ELSE parts

(***************************************************************************)
(* uploadMediaFilesToNextcloud, first phase (lines 590-629).               *)
(***************************************************************************)
\* one goroutine per worker slot (numWorkers, line 595) instead of parallelUploads
StartDirWorkers_AllWorkers ==
    /\ mainPc = "start"
    /\ dirJobs' = <<>>
    /\ wgDir' = Len(directories)
    /\ dpc' = [w \in DirWorkers |-> "recv"]
    /\ mainPc' = "sendDirs"
    /\ UNCHANGED <<dirJobsClosed, dirSent, dParts, dPath, dJob, collections, faults,
                   dOk, created, dirEnded, wrongAbandon>>
    /\ UNCHANGED dirFrame

\* the pool started with one goroutine when parallelUploads is 0
StartDirWorkers_AtLeastOne ==
    /\ mainPc = "start"
    /\ dirJobs' = <<>>
    /\ wgDir' = Len(directories)
    /\ dpc' = [w \in DirWorkers |->
                  IF w <= parallelUploads \/ w = 1 THEN "recv" ELSE "off"]
    /\ mainPc' = "sendDirs"
    /\ UNCHANGED <<dirJobsClosed, dirSent, dParts, dPath, dJob, collections, faults,
                   dOk, created, dirEnded, wrongAbandon>>
    /\ UNCHANGED dirFrame

\* lines 593-619: make the channel, wgDir.Add(dirSize), start parallelUploads goroutines
StartDirWorkers ==
    /\ mainPc = "start"
    /\ dirJobs' = <<>>
    /\ wgDir' = Len(directories)
    /\ dpc' = [w \in DirWorkers |-> IF w <= parallelUploads THEN "recv" ELSE "off"]
    /\ mainPc' = "sendDirs"
    /\ UNCHANGED <<dirJobsClosed, dirSent, dParts, dPath, dJob, collections, faults,
                   dOk, created, dirEnded, wrongAbandon>>
    /\ UNCHANGED dirFrame

\* lines 622-624: dirJobs <- dir (the buffer holds dirSize, the send never blocks)
SendDir ==
    /\ mainPc = "sendDirs"
    /\ dirSent < Len(directories)
    /\ Len(dirJobs) < Len(directories)
    /\ dirJobs' = Append(dirJobs, directories[dirSent + 1])
    /\ dirSent' = dirSent + 1
    /\ UNCHANGED <<mainPc, dirJobsClosed, wgDir, dpc, dParts, dPath, dJob, collections,
                   faults, dOk, created, dirEnded, wrongAbandon>>
    /\ UNCHANGED dirFrame

\* line 627: close(dirJobs)
CloseDirJobs ==
    /\ mainPc = "sendDirs"
    /\ dirSent = Len(directories)
    /\ dirJobsClosed' = TRUE
    /\ mainPc' = "waitDirs"
    /\ UNCHANGED <<dirJobs, dirSent, wgDir, dpc, dParts, dPath, dJob, collections,
                   faults, dOk, created, dirEnded, wrongAbandon>>
    /\ UNCHANGED dirFrame

\* line 610: for directory := range dirJobs, a value is received;
\* lines 484-485: createNestedDirectories splits it
DirReceive(w) ==
    /\ dpc[w] = "recv"
    /\ dirJobs # <<>>
    /\ dirJobs' = Tail(dirJobs)
    /\ dJob' = [dJob EXCEPT ![w] = Head(dirJobs)]
    /\ dParts' = [dParts EXCEPT ![w] = Split(Head(dirJobs), Slash)]
    /\ dPath' = [dPath EXCEPT ![w] = <<>>]
    /\ dOk' = [dOk EXCEPT ![w] = {}]
    /\ dpc' = [dpc EXCEPT ![w] = "create"]
    /\ UNCHANGED <<mainPc, dirJobsClosed, dirSent, wgDir, collections, faults, created,
                   dirEnded, wrongAbandon>>
    /\ UNCHANGED dirFrame

\* line 610: on the closed, drained channel the range loop ends and the goroutine
\* returns.  The return changes nothing any other goroutine can observe, so it
\* is this predicate on the goroutine's position, not a step of its own.
DirGoroutineEnded(w) ==
    /\ dpc[w] = "recv"
    /\ dirJobs = <<>>
    /\ dirJobsClosed

\* lines 487-492 and 502-507: the next non-empty part extends currentPath and
\* the MKCOL request for it is sent
MkcolRequest(w) ==
    /\ dpc[w] = "create"
    /\ SkipEmptyParts(dParts[w]) # <<>>
    /\ LET rest == SkipEmptyParts(dParts[w])
       IN /\ dPath' = [dPath EXCEPT ![w] = dPath[w] \o <<Slash>> \o Head(rest)]
          /\ dParts' = [dParts EXCEPT ![w] = Tail(rest)]
    /\ dpc' = [dpc EXCEPT ![w] = "mkcol"]
    /\ UNCHANGED <<mainPc, dirJobs, dirJobsClosed, dirSent, wgDir, dJob, collections,
                   faults, dOk, created, dirEnded, wrongAbandon>>
    /\ UNCHANGED dirFrame

\* the status contract of directory creation (spec section 6)
MkcolSuccessClass == {StatusOK, StatusCreated, StatusNoContent, StatusMethodNotAllowed}

\* the goroutine skipping wgDir.Done() when createNestedDirectories failed
DirJobEnds_NoDoneOnError(w, result) ==
    /\ dirEnded' = [dirEnded EXCEPT ![dJob[w]] = result]
    /\ wgDir' = IF result = "error" THEN wgDir ELSE wgDir - 1
    /\ dpc' = [dpc EXCEPT ![w] = "recv"]
    /\ dJob' = [dJob EXCEPT ![w] = <<>>]
    /\ dParts' = [dParts EXCEPT ![w] = <<>>]
    /\ dPath' = [dPath EXCEPT ![w] = <<>>]
    /\ dOk' = [dOk EXCEPT ![w] = {}]

\* lines 612-616: createNestedDirectories has returned (nil, or the error that
\* is logged); dirBar.Add(1); wgDir.Done()
DirJobEnds(w, result) ==
    /\ dirEnded' = [dirEnded EXCEPT ![dJob[w]] = result]
    /\ wgDir' = wgDir - 1
    /\ dpc' = [dpc EXCEPT ![w] = "recv"]
    /\ dJob' = [dJob EXCEPT ![w] = <<>>]
    /\ dParts' = [dParts EXCEPT ![w] = <<>>]
    /\ dPath' = [dPath EXCEPT ![w] = <<>>]
    /\ dOk' = [dOk EXCEPT ![w] = {}]

\* lines 507-527 and 492-494: the answer to the MKCOL request arrives; an error
\* makes createNestedDirectories return it, abandoning the remaining parts
MkcolResponse(w) ==
    /\ dpc[w] = "mkcol"
    /\ \E a \in MkcolAnswers(dPath[w], collections, faults) :
          /\ collections' = a.cols
          /\ faults' = a.faults
          /\ created' = IF a.status # StatusCreated THEN created
                        ELSE IF dPath[w] \in DOMAIN created
                             THEN [created EXCEPT ![dPath[w]] = @ + 1]
                             ELSE created @@ (dPath[w] :> 1)
          /\ IF createDirectoryIfNotExists(a.status)
                THEN /\ dOk' = [dOk EXCEPT ![w] = @ \cup {dPath[w]}]
                     /\ dpc' = [dpc EXCEPT ![w] = "create"]
                     /\ UNCHANGED <<wgDir, dirEnded, dParts, dPath, dJob, wrongAbandon>>
                ELSE /\ DirJobEnds(w, "error")
                     /\ wrongAbandon' = (wrongAbandon \/ a.status \in MkcolSuccessClass)
    /\ UNCHANGED <<mainPc, dirJobs, dirJobsClosed, dirSent>>
    /\ UNCHANGED dirFrame

\* lines 487 and 497, 615-616: no part is left, createNestedDirectories returns nil
DirJobDone(w) ==
    /\ dpc[w] = "create"
    /\ SkipEmptyParts(dParts[w]) = <<>>
    /\ DirJobEnds(w, "nil")
    /\ UNCHANGED <<mainPc, dirJobs, dirJobsClosed, dirSent, collections, faults, created,
                   wrongAbandon>>
    /\ UNCHANGED dirFrame

\* main goes on without waiting for wgDir
WaitDirs_NoJoin ==
    /\ mainPc = "waitDirs"
    /\ mainPc' = "startMedia"
    /\ UNCHANGED <<dirJobs, dirJobsClosed, dirSent, wgDir, dpc, dParts, dPath, dJob,
                   collections, faults, dOk, created, dirEnded, wrongAbandon>>
    /\ UNCHANGED dirFrame

\* line 629: wgDir.Wait() returns
WaitDirs ==
    /\ mainPc = "waitDirs"
    /\ wgDir = 0
    /\ mainPc' = "startMedia"
    /\ UNCHANGED <<dirJobs, dirJobsClosed, dirSent, wgDir, dpc, dParts, dPath, dJob,
                   collections, faults, dOk, created, dirEnded, wrongAbandon>>
    /\ UNCHANGED dirFrame

(***************************************************************************)
(* uploadFile (lines 531-583) and worker (lines 672-682).                  *)
(***************************************************************************)
\* line 536
retryCount == 3

NoJob == [Path |-> <<>>, Ts |-> <<>>]

\* what the server may answer to a PUT: any of these statuses, or no response
PutAnswers == {StatusOK, StatusCreated, StatusNoContent, StatusNotFound,
               StatusGatewayTimeout, StatusInternalServerError, TransportErr}

\* the classes of the status contract (spec section 6), for the histories
SuccessClass == {StatusOK, StatusCreated, StatusNoContent}
TransientClass == {StatusNotFound, StatusGatewayTimeout}
ClassOf(answer) ==
    IF answer = TransportErr THEN "err"
    ELSE IF answer \in SuccessClass THEN "success"
    ELSE IF answer \in TransientClass THEN "transient"
    ELSE "other"

\* uploadFile with the loop bound off by one (attempt <= retryCount + 1)
uploadFileBranch_FourAttempts(answer, att) ==
    IF answer = TransportErr THEN "err"
    ELSE IF answer = StatusCreated \/ answer = StatusOK THEN "success"
    ELSE IF answer = StatusNoContent THEN "success"
    ELSE IF answer = StatusNotFound \/ answer = StatusGatewayTimeout
         THEN IF att + 1 <= retryCount + 1 THEN "retry" ELSE "exhausted"
    ELSE "failed"

\* uploadFile without the 204 case of lines 565-568
uploadFileBranch_No204(answer, att) ==
    IF answer = TransportErr THEN "err"
    ELSE IF answer = StatusCreated \/ answer = StatusOK THEN "success"
    ELSE IF answer = StatusNotFound \/ answer = StatusGatewayTimeout
         THEN IF att + 1 <= retryCount THEN "retry" ELSE "exhausted"
    ELSE "failed"

\* uploadFile retrying on every status that is not a success
uploadFileBranch_RetryAll(answer, att) ==
    IF answer = TransportErr THEN "err"
    ELSE IF answer = StatusCreated \/ answer = StatusOK THEN "success"
    ELSE IF answer = StatusNoContent THEN "success"
    ELSE IF att + 1 <= retryCount THEN "retry" ELSE "exhausted"

\* uploadFile counting a transport error as a failed upload
uploadFileBranch_ErrCounted(answer, att) ==
    IF answer = TransportErr THEN "failed"
    ELSE IF answer = StatusCreated \/ answer = StatusOK THEN "success"
    ELSE IF answer = StatusNoContent THEN "success"
    ELSE IF answer = StatusNotFound \/ answer = StatusGatewayTimeout
         THEN IF att + 1 <= retryCount THEN "retry" ELSE "exhausted"
    ELSE "failed"

\* lines 560-582: the branch uploadFile takes on an answer, at loop variable att:
\* "success" (counter, return nil), "retry" (sleep, continue), "exhausted" (the
\* loop ends, counter, error), "failed" (counter, error), "err" (return err)
uploadFileBranch(answer, att) ==
    IF answer = TransportErr THEN "err"
    ELSE IF answer = StatusCreated \/ answer = StatusOK THEN "success"
    ELSE IF answer = StatusNoContent THEN "success"
    ELSE IF answer = StatusNotFound \/ answer = StatusGatewayTimeout
         THEN IF att + 1 <= retryCount THEN "retry" ELSE "exhausted"
    ELSE "failed"

\* lines 636-661: the channels, the workers, the sender and the closer goroutines
StartMediaWorkers ==
    /\ mainPc = "startMedia"
    /\ jobs' = <<>>
    /\ progressChan' = <<>>
    /\ wgMedia' = parallelUploads
    /\ upc' = [w \in DirWorkers |-> IF w <= parallelUploads THEN "recv" ELSE "off"]
    /\ toSend' = DOMAIN myMap
    /\ finishCounter' = 0
    /\ mainPc' = "aggregate"
    /\ UNCHANGED <<jobsClosed, progressClosed, uJob, attempt, tmp, panicked, putCount,
                   resp, retries, succIncs, failIncs, units>>
    /\ UNCHANGED upFrame

\* the sender goroutine sending a key without moving on to the next one
SendJob_KeepsKey ==
    /\ mainPc = "aggregate"
    /\ ~jobsClosed
    /\ \E photoPath \in toSend :
          /\ Len(jobs) < Cardinality(DOMAIN myMap)
          /\ jobs' = Append(jobs, [Path |-> photoPath, Ts |-> myMap[photoPath]])
          /\ toSend' = toSend
    /\ UNCHANGED <<mainPc, jobsClosed, progressChan, progressClosed, wgMedia, upc, uJob,
                   attempt, tmp, finishCounter, panicked, putCount, resp, retries,
                   succIncs, failIncs, units>>
    /\ UNCHANGED upFrame

\* lines 651-653: jobs <- MediaFile{photoPath, subFolderTimestamp}, in map order
SendJob ==
    /\ mainPc = "aggregate"
    /\ ~jobsClosed
    /\ \E photoPath \in toSend :
          /\ Len(jobs) < Cardinality(DOMAIN myMap)
          /\ jobs' = Append(jobs, [Path |-> photoPath, Ts |-> myMap[photoPath]])
          /\ toSend' = toSend \ {photoPath}
    /\ UNCHANGED <<mainPc, jobsClosed, progressChan, progressClosed, wgMedia, upc, uJob,
                   attempt, tmp, finishCounter, panicked, putCount, resp, retries,
                   succIncs, failIncs, units>>
    /\ UNCHANGED upFrame

\* line 654: close(jobs)
CloseJobs ==
    /\ mainPc = "aggregate"
    /\ ~jobsClosed
    /\ toSend = {}
    /\ jobsClosed' = TRUE
    /\ UNCHANGED <<mainPc, jobs, toSend, progressChan, progressClosed, wgMedia, upc,
                   uJob, attempt, tmp, finishCounter, panicked, putCount, resp, retries,
                   succIncs, failIncs, units>>
    /\ UNCHANGED upFrame

\* line 675: for media := range jobs, a value is received; line 537: attempt := 1
WorkerReceive(w) ==
    /\ upc[w] = "recv"
    /\ jobs # <<>>
    /\ jobs' = Tail(jobs)
    /\ uJob' = [uJob EXCEPT ![w] = Head(jobs)]
    /\ attempt' = [attempt EXCEPT ![w] = 1]
    /\ upc' = [upc EXCEPT ![w] = "attempt"]
    /\ UNCHANGED <<mainPc, jobsClosed, toSend, progressChan, progressClosed, wgMedia, tmp,
                   finishCounter, panicked, putCount, resp, retries, succIncs, failIncs,
                   units>>
    /\ UNCHANGED upFrame

\* worker returning without the deferred wg.Done() of line 673
WorkerExit_NoDone(w) ==
    /\ upc[w] = "recv"
    /\ jobs = <<>>
    /\ jobsClosed
    /\ wgMedia' = wgMedia
    /\ upc' = [upc EXCEPT ![w] = "exit"]
    /\ UNCHANGED <<mainPc, jobs, jobsClosed, toSend, progressChan, progressClosed, uJob,
                   attempt, tmp, finishCounter, panicked, putCount, resp, retries,
                   succIncs, failIncs, units>>
    /\ UNCHANGED upFrame

\* lines 675 and 673: the channel is closed and drained; deferred wg.Done()
WorkerExit(w) ==
    /\ upc[w] = "recv"
    /\ jobs = <<>>
    /\ jobsClosed
    /\ wgMedia' = wgMedia - 1
    /\ upc' = [upc EXCEPT ![w] = "exit"]
    /\ UNCHANGED <<mainPc, jobs, jobsClosed, toSend, progressChan, progressClosed, uJob,
                   attempt, tmp, finishCounter, panicked, putCount, resp, retries,
                   succIncs, failIncs, units>>
    /\ UNCHANGED upFrame

\* lines 538-554: os.Open and http.NewRequest succeed and the PUT is sent
PutRequest(w) ==
    /\ upc[w] = "attempt"
    /\ putCount' = [putCount EXCEPT ![uJob[w].Path] = @ + 1]
    /\ upc' = [upc EXCEPT ![w] = "put"]
    /\ UNCHANGED <<mainPc, jobs, jobsClosed, toSend, progressChan, progressClosed, wgMedia,
                   uJob, attempt, tmp, finishCounter, panicked, resp, retries, succIncs,
                   failIncs, units>>
    /\ UNCHANGED upFrame

\* lines 538-547: os.Open or http.NewRequest fails, uploadFile returns the error
LocalError(w) ==
    /\ upc[w] = "attempt"
    /\ upc' = [upc EXCEPT ![w] = "progress"]
    /\ UNCHANGED <<mainPc, jobs, jobsClosed, toSend, progressChan, progressClosed, wgMedia,
                   uJob, attempt, tmp, finishCounter, panicked, putCount, resp, retries,
                   succIncs, failIncs, units>>
    /\ UNCHANGED upFrame

\* lines 554-582: the answer arrives and uploadFile branches on it
PutResponse(w) ==
    /\ upc[w] = "put"
    /\ \E answer \in PutAnswers :
        LET branch == uploadFileBranch(answer, attempt[w])
        IN /\ resp' = [resp EXCEPT ![uJob[w].Path] = Append(@, ClassOf(answer))]
           /\ retries' = [retries EXCEPT ![uJob[w].Path] =
                             IF branch \in {"retry", "exhausted"} THEN @ + 1 ELSE @]
           /\ attempt' = [attempt EXCEPT ![w] =
                             IF branch \in {"retry", "exhausted"} THEN @ + 1 ELSE @]
           /\ upc' = [upc EXCEPT ![w] =
                         CASE branch = "err" -> "progress"
                           [] branch = "success" -> "incSuccess"
                           [] branch = "retry" -> "attempt"
                           [] OTHER -> "incFailed"]
    /\ UNCHANGED <<mainPc, jobs, jobsClosed, toSend, progressChan, progressClosed, wgMedia,
                   uJob, tmp, finishCounter, panicked, putCount, succIncs, failIncs, units>>
    /\ UNCHANGED upFrame

\* lines 561, 566, 577, 581: counter++ reads the package-level counter ...
ReadCounter(w) ==
    /\ upc[w] \in {"incSuccess", "incFailed"}
    /\ tmp' = [tmp EXCEPT ![w] =
                  IF upc[w] = "incSuccess" THEN successfullCounter ELSE failedCounter]
    /\ upc' = [upc EXCEPT ![w] = IF upc[w] = "incSuccess" THEN "wrSuccess" ELSE "wrFailed"]
    /\ UNCHANGED <<successfullCounter, failedCounter, succIncs, failIncs>>
    /\ UNCHANGED counterFrame

\* ... and writes the value read plus one (no lock, no atomic); uploadFile returns
WriteCounter(w) ==
    /\ upc[w] \in {"wrSuccess", "wrFailed"}
    /\ IF upc[w] = "wrSuccess"
          THEN /\ successfullCounter' = tmp[w] + 1
               /\ succIncs' = [succIncs EXCEPT ![uJob[w].Path] = @ + 1]
               /\ UNCHANGED <<failedCounter, failIncs>>
          ELSE /\ failedCounter' = tmp[w] + 1
               /\ failIncs' = [failIncs EXCEPT ![uJob[w].Path] = @ + 1]
               /\ UNCHANGED <<successfullCounter, succIncs>>
    /\ tmp' = [tmp EXCEPT ![w] = 0]
    /\ upc' = [upc EXCEPT ![w] = "progress"]
    /\ UNCHANGED counterFrame

\* line 680: progressChan <- 1 (blocks while the buffer is full, panics when the
\* channel is closed)
SendProgress(w) ==
    /\ upc[w] = "progress"
    /\ IF progressClosed
          THEN /\ panicked' = TRUE
               /\ upc' = [upc EXCEPT ![w] = "exit"]
               /\ UNCHANGED <<progressChan, units>>
          ELSE /\ Len(progressChan) < parallelUploads
               /\ progressChan' = Append(progressChan, 1)
               /\ units' = [units EXCEPT ![uJob[w].Path] = @ + 1]
               /\ upc' = [upc EXCEPT ![w] = "recv"]
               /\ UNCHANGED panicked
    /\ uJob' = [uJob EXCEPT ![w] = NoJob]
    /\ attempt' = [attempt EXCEPT ![w] = 0]
    /\ UNCHANGED <<mainPc, jobs, jobsClosed, toSend, progressClosed, wgMedia, tmp,
                   finishCounter, putCount, resp, retries, succIncs, failIncs>>
    /\ UNCHANGED upFrame

\* the closer goroutine closes progressChan without waiting for wgMedia
CloseProgress_NoJoin ==
    /\ mainPc = "aggregate"
    /\ ~progressClosed
    /\ progressClosed' = TRUE
    /\ UNCHANGED <<mainPc, jobs, jobsClosed, toSend, progressChan, wgMedia, upc, uJob,
                   attempt, tmp, finishCounter, panicked, putCount, resp, retries,
                   succIncs, failIncs, units>>
    /\ UNCHANGED upFrame

\* lines 658-661: wgMedia.Wait() returns and progressChan is closed
CloseProgress ==
    /\ mainPc = "aggregate"
    /\ ~progressClosed
    /\ wgMedia = 0
    /\ progressClosed' = TRUE
    /\ UNCHANGED <<mainPc, jobs, jobsClosed, toSend, progressChan, wgMedia, upc, uJob,
                   attempt, tmp, finishCounter, panicked, putCount, resp, retries,
                   succIncs, failIncs, units>>
    /\ UNCHANGED upFrame

\* lines 665-669: for p := range progressChan { finishCounter += p }
Aggregate ==
    /\ mainPc = "aggregate"
    /\ progressChan # <<>>
    /\ finishCounter' = finishCounter + Head(progressChan)
    /\ progressChan' = Tail(progressChan)
    /\ UNCHANGED <<mainPc, jobs, jobsClosed, toSend, progressClosed, wgMedia, upc, uJob,
                   attempt, tmp, panicked, putCount, resp, retries, succIncs, failIncs,
                   units>>
    /\ UNCHANGED upFrame

\* lines 665, 670 and 727-729: the loop ends on the closed, drained channel; main
\* prints the two counters and exits
Report ==
    /\ mainPc = "aggregate"
    /\ progressChan = <<>>
    /\ progressClosed
    /\ mainPc' = "done"
    /\ UNCHANGED <<jobs, jobsClosed, toSend, progressChan, progressClosed, wgMedia, upc,
                   uJob, attempt, tmp, finishCounter, panicked, putCount, resp, retries,
                   succIncs, failIncs, units>>
    /\ UNCHANGED upFrame

(***************************************************************************)
(* Spec: main from the call of uploadMediaFilesToNextcloud on (lines       *)
(* 723-729), for every myMap of at most MaxFiles entries and every         *)
(* PARALLEL_UPLOADS in 0..MaxParallel.                                     *)
(***************************************************************************)
\* The paths are interchangeable, so each multiset of buckets is taken once:
\* the bucket index does not decrease along UploadPathSeq.
UploadMaps ==
    UNION {
        {[p \in {UploadPathSeq[i] : i \in 1..n} |->
             UploadBucketSeq[f[CHOOSE i \in 1..n : UploadPathSeq[i] = p]]] :
         f \in {g \in [1..n -> 1..Len(UploadBucketSeq)] :
                   \A i, j \in 1..n : i <= j => g[i] <= g[j]}} :
        n \in 0..MaxFiles}

vars == <<parallelUploads, myMap, directories, successfullCounter, failedCounter, mainPc,
          dirVars, upVars, resVars>>

\* PhotoMetadata's zero value (lines 259-270), the fields the program reads
ZeroMetadata == [Title |-> <<>>, PhotoTakenTime |-> <<>>, CreationTime |-> <<>>]

\* processDirectory is not running
ResolveIdle(pc) ==
    /\ rPc = pc
    /\ tree = {}
    /\ walkFailed = FALSE
    /\ jsonFileList = <<>>
    /\ mediaFileList = <<>>
    /\ jIdx = 0
    /\ metadata = ZeroMetadata
    /\ exifMEdiaFileList = <<>>
    /\ eIdx = 0
    /\ afterSidecars = <<>>
    /\ sidecarWritten = {}
    /\ exifWritten = {}

\* uploadMediaFilesToNextcloud has not been called
UploadIdle(pc) ==
    /\ successfullCounter = 0
    /\ failedCounter = 0
    /\ mainPc = pc
    /\ dirJobs = <<>>
    /\ dirJobsClosed = FALSE
    /\ dirSent = 0
    /\ wgDir = 0
    /\ dpc = [w \in DirWorkers |-> "off"]
    /\ dParts = [w \in DirWorkers |-> <<>>]
    /\ dPath = [w \in DirWorkers |-> <<>>]
    /\ dJob = [w \in DirWorkers |-> <<>>]
    /\ collections = {}
    /\ faults = 0
    /\ dOk = [w \in DirWorkers |-> {}]
    /\ created = <<>>
    /\ dirEnded = [d \in Range(myMap) |-> "running"]
    /\ wrongAbandon = FALSE
    /\ jobs = <<>>
    /\ jobsClosed = FALSE
    /\ toSend = {}
    /\ progressChan = <<>>
    /\ progressClosed = FALSE
    /\ wgMedia = 0
    /\ upc = [w \in DirWorkers |-> "off"]
    /\ uJob = [w \in DirWorkers |-> NoJob]
    /\ attempt = [w \in DirWorkers |-> 0]
    /\ tmp = [w \in DirWorkers |-> 0]
    /\ finishCounter = 0
    /\ panicked = FALSE
    /\ putCount = [p \in DOMAIN myMap |-> 0]
    /\ resp = [p \in DOMAIN myMap |-> <<>>]
    /\ retries = [p \in DOMAIN myMap |-> 0]
    /\ succIncs = [p \in DOMAIN myMap |-> 0]
    /\ failIncs = [p \in DOMAIN myMap |-> 0]
    /\ units = [p \in DOMAIN myMap |-> 0]

Init ==
    /\ parallelUploads \in 0..MaxParallel
    /\ myMap \in UploadMaps
    /\ directories \in getUniqueDirectoryToBecreatedOnNextCloud(myMap)
    /\ UploadIdle("start")
    /\ ResolveIdle("done")

Next ==
    \/ StartDirWorkers
    \/ SendDir
    \/ CloseDirJobs
    \/ WaitDirs
    \/ \E w \in DirWorkers : DirReceive(w)
    \/ \E w \in DirWorkers : MkcolRequest(w)
    \/ \E w \in DirWorkers : MkcolResponse(w)
    \/ \E w \in DirWorkers : DirJobDone(w)
    \/ StartMediaWorkers
    \/ SendJob
    \/ CloseJobs
    \/ CloseProgress
    \/ Aggregate
    \/ Report
    \/ \E w \in DirWorkers : WorkerReceive(w)
    \/ \E w \in DirWorkers : WorkerExit(w)
    \/ \E w \in DirWorkers : PutRequest(w)
    \/ \E w \in DirWorkers : LocalError(w)
    \/ \E w \in DirWorkers : PutResponse(w)
    \/ \E w \in DirWorkers : ReadCounter(w)
    \/ \E w \in DirWorkers : WriteCounter(w)
    \/ \E w \in DirWorkers : SendProgress(w)

Spec == Init /\ [][Next]_vars

(***************************************************************************)
(* Properties of the upload phases (specification Spec).                   *)
(***************************************************************************)
Last(seq) == seq[Len(seq)]

\* the upload job of path p has been received by a worker
JobTaken(p) ==
    /\ mainPc \in {"aggregate", "done"}
    /\ p \notin toSend
    /\ \A i \in 1..Len(jobs) : jobs[i].Path # p

\* the upload job of path p is over: worker's loop body has run to its end
JobEnded(p) == JobTaken(p) /\ \A w \in DirWorkers : uJob[w].Path # p

UploadBegun ==
    \/ jobs # <<>>
    \/ \E p \in DOMAIN myMap : putCount[p] > 0
    \/ \E w \in DirWorkers : upc[w] # "off"
    \/ mainPc \in {"aggregate", "done"} /\ toSend # DOMAIN myMap

\* C1: no upload job is enqueued, no upload worker runs and no PUT is sent
\* before every directory job has ended (returned nil, or returned the error of
\* a failed segment) and no MKCOL is in flight.
C1_PhaseBarrier ==
    UploadBegun =>
        /\ \A d \in Range(myMap) : dirEnded[d] # "running"
        /\ \A w \in DirWorkers : dpc[w] \in {"off", "recv"}
        /\ dirJobs = <<>>

C1_Witness ==
    /\ parallelUploads >= 2
    /\ \E p \in DOMAIN myMap : putCount[p] > 0
    /\ \E d \in Range(myMap) : dirEnded[d] = "error"
    /\ \E d \in Range(myMap) : dirEnded[d] = "nil"

ThreeTransient == <<"transient", "transient", "transient">>

\* C2 (as claimed): when the run is over, successfullCounter is the number of
\* jobs whose last answer was a success and failedCounter the number of jobs
\* whose last answer was a hard failure or the third transient answer.
C2_NoLostIncrement ==
    mainPc = "done" =>
        /\ successfullCounter =
              Cardinality({p \in DOMAIN myMap :
                              resp[p] # <<>> /\ Last(resp[p]) = "success"})
        /\ failedCounter =
              Cardinality({p \in DOMAIN myMap :
                              \/ resp[p] # <<>> /\ Last(resp[p]) = "other"
                              \/ resp[p] = ThreeTransient})

\* C3: a job sends at most 3 PUT requests; a job that ended after three
\* transient answers incremented failedCounter once, successfullCounter never,
\* and sent one progress unit.
C3_RetryBound ==
    \A p \in DOMAIN myMap :
        /\ putCount[p] <= 3
        /\ units[p] <= 1
        /\ (JobEnded(p) /\ resp[p] = ThreeTransient) =>
              /\ failIncs[p] = 1
              /\ succIncs[p] = 0
              /\ units[p] = 1

C3_Witness ==
    \E p \in DOMAIN myMap : JobEnded(p) /\ resp[p] = ThreeTransient

\* k transient answers followed by a success
TransientThenSuccess(k) == [i \in 1..(k + 1) |-> IF i <= k THEN "transient" ELSE "success"]

\* C4: a success answer is the last answer of its job and no PUT follows it; a
\* job that ended on k transient answers (k in 0..2) and then a success
\* incremented successfullCounter once, failedCounter never, retried k times
\* and sent k + 1 requests.
C4_SuccessAfterRetries ==
    \A p \in DOMAIN myMap :
        /\ \A i \in 1..Len(resp[p]) :
              resp[p][i] = "success" => i = Len(resp[p]) /\ putCount[p] = i
        /\ \A k \in 0..2 :
              (JobEnded(p) /\ resp[p] = TransientThenSuccess(k)) =>
                  /\ succIncs[p] = 1
                  /\ failIncs[p] = 0
                  /\ retries[p] = k
                  /\ putCount[p] = k + 1

C4_Witness ==
    \E p \in DOMAIN myMap : JobEnded(p) /\ resp[p] = TransientThenSuccess(2)

\* C5: an answer that is neither success nor transient is the last answer of
\* its job, whatever the attempt, and no PUT follows it; the job then ends with
\* one increment of failedCounter, none of successfullCounter and one progress
\* unit.
C5_HardFailure ==
    \A p \in DOMAIN myMap :
        \A i \in 1..Len(resp[p]) :
            resp[p][i] = "other" =>
                /\ i = Len(resp[p])
                /\ putCount[p] = i
                /\ retries[p] = i - 1
                /\ JobEnded(p) => failIncs[p] = 1 /\ succIncs[p] = 0 /\ units[p] = 1

C5_Witness ==
    \E p \in DOMAIN myMap : JobEnded(p) /\ resp[p] = <<"transient", "other">>

\* C6: no goroutine sends on the closed progressChan, the channel is closed
\* only when every upload worker has returned, and when the aggregation loop
\* has ended finishCounter is len(myMap).
C6_ProgressComplete ==
    /\ ~panicked
    /\ progressClosed => \A w \in DirWorkers : upc[w] \in {"off", "exit"}
    /\ mainPc = "done" => finishCounter = Cardinality(DOMAIN myMap)

C6_Witness ==
    /\ mainPc = "done"
    /\ parallelUploads >= 2
    /\ finishCounter >= 2

\* C7: a collection is answered 201 at most once; no job returns an error on
\* an already-exists (405, 204) or created (200, 201) answer; and when the
\* server fails no request, no job is abandoned.
C7_SharedParentIdempotent ==
    /\ \A path \in DOMAIN created : created[path] <= 1
    /\ ~wrongAbandon
    /\ faults = 0 => \A d \in Range(myMap) : dirEnded[d] # "error"

C7_Witness ==
    /\ parallelUploads >= 2
    /\ {B2024_01, B2024_02} \subseteq Range(myMap)
    /\ dirEnded[B2024_01] = "nil"
    /\ dirEnded[B2024_02] = "nil"
    /\ created[<<"/","2","0","2","4">>] = 1
    /\ faults = 0

(***************************************************************************)
(* processDirectory (lines 458-480) and the functions it calls.            *)
(***************************************************************************)
resFrame == <<parallelUploads, directories, successfullCounter, failedCounter, mainPc,
              dirVars, upVars>>

\* The entries a source tree may hold, in the order filepath.Walk visits them
\* (lexical within a directory).  mode is what Lstat reports; a "dirlink" is a
\* symbolic link to a directory (Lstat: not a directory; Open and Stat: one).
TreePool == <<
    [path |-> <<"/","p","/",".","D","S","_","S","t","o","r","e">>, mode |-> "regular"],
    [path |-> <<"/","p","/","a",".","j">>, mode |-> "regular"],
    [path |-> <<"/","p","/","a",".","j",".","s",".","j","s","o","n">>, mode |-> "regular"],
    [path |-> <<"/","p","/","b",".","j">>, mode |-> "regular"],
    [path |-> <<"/","p","/","b",".","j",".","s",".","j","s","o","n">>, mode |-> "regular"],
    [path |-> <<"/","p","/","c",".","j","s","o","n">>, mode |-> "regular"],
    [path |-> <<"/","p","/","l">>, mode |-> "dirlink"],
    [path |-> <<"/","p","/","s","u","b">>, mode |-> "dir"] >>

Trees == {t \in SUBSET (1..Len(TreePool)) : Cardinality(t) <= MaxEntries}

\* the entries of tree t in walk order
RECURSIVE WalkOrder(_, _)
WalkOrder(t, i) ==
    IF i > Len(TreePool) THEN <<>>
    ELSE (IF i \in t THEN <<TreePool[i]>> ELSE <<>>) \o WalkOrder(t, i + 1)

JsonExt == <<".","j","s","o","n">>
DSStoreExt == <<".","D","S","_","S","t","o","r","e">>

\* the walk function taking every .json file for a sidecar
classify_AnyJson(entry) ==
    IF entry.mode = "dir" THEN "none"
    ELSE IF Ext(Base(entry.path)) = JsonExt THEN "json"
         ELSE "media"

\* lines 336-346, the walk function on one entry: "json", "media" or "none"
classify(entry) ==
    IF entry.mode = "dir" THEN "none"
    ELSE IF Ext(Base(entry.path)) = JsonExt
         THEN IF Count(Base(entry.path), Dot) = 3 THEN "json" ELSE "none"
         ELSE "media"

\* the paths of the entries of class c, in order
RECURSIVE PathsOfClass(_, _)
PathsOfClass(entries, c) ==
    IF entries = <<>> THEN <<>>
    ELSE (IF classify(Head(entries)) = c THEN <<Head(entries).path>> ELSE <<>>)
         \o PathsOfClass(Tail(entries), c)

\* getMediaFileList (lines 325-351): the walk visits the root (a directory) and
\* then the entries; it stops at the first error the walk function is handed,
\* after visited entries, and its error result is dropped (line 330)
getMediaFileList ==
    /\ rPc = "scan"
    /\ \E visited \in 0..Cardinality(tree) :
          LET entries == SubSeq(WalkOrder(tree, 1), 1, visited)
          IN /\ jsonFileList' = PathsOfClass(entries, "json")
             /\ mediaFileList' = PathsOfClass(entries, "media")
             /\ walkFailed' \in (IF visited = Cardinality(tree) THEN {FALSE, TRUE}
                                                                ELSE {TRUE})
    /\ jIdx' = 1
    /\ rPc' = "sidecars"
    /\ UNCHANGED <<myMap, tree, metadata, exifMEdiaFileList, eIdx, afterSidecars,
                   sidecarWritten, exifWritten>>
    /\ UNCHANGED resFrame

\* the timestamps a sidecar may carry
TsISO2024 == <<"2","0","2","4","-","0","1","-","1","5","T","1","0",":","0","0",":","0","0","Z">>
TsISO2023 == <<"2","0","2","3","-","0","5","-","0","1","T","0","0",":","0","0",":","0","0","Z">>
TsEpoch2020 == <<"1","6","0","0","0","0","0","0","0","0">>
TsBadMonth == <<"2","0","2","4","-","1","3","-","1","5","T","1","0",":","0","0",":","0","0","Z">>
TsYear1 == <<"0","0","0","1","-","0","3","-","0","1","T","0","0",":","0","0",":","0","0","Z">>
TsEpoch10001 == <<"2","5","3","4","3","3","9","2","3","2","0","0">>
TsEmpty == <<>>

\* what json.Unmarshal may leave in metadata (lines 373-374).  Malformed JSON
\* leaves the zero value, which is the record with three empty fields.
Metadatas ==
    [Title : {<<"a",".","j">>, <<"b",".","j">>, <<>>},
     PhotoTakenTime : {TsISO2024, TsEpoch2020, TsBadMonth, TsYear1, TsEpoch10001, TsEmpty},
     CreationTime : {TsISO2023, TsEmpty}]

\* lines 376-381: the entry one sidecar adds to the map
sidecarEntry(jsonFile, md) ==
    [key |-> Join(Dir(jsonFile), md.Title),
     value |-> extractDateFolder(md.PhotoTakenTime).folder]

\* m with key k set to v
MapSet(m, k, v) == [x \in DOMAIN m \cup {k} |-> IF x = k THEN v ELSE m[x]]

\* lines 355-381, one iteration: the sidecar is opened, read and parsed and
\* its entry is stored
SidecarResolve ==
    /\ rPc = "sidecars"
    /\ jIdx <= Len(jsonFileList)
    /\ \E md \in Metadatas :
          LET e == sidecarEntry(jsonFileList[jIdx], md)
          IN /\ metadata' = md
             /\ myMap' = MapSet(myMap, e.key, e.value)
             /\ sidecarWritten' = sidecarWritten \cup {e.key}
    /\ jIdx' = jIdx + 1
    /\ UNCHANGED <<rPc, tree, walkFailed, jsonFileList, mediaFileList, exifMEdiaFileList,
                   eIdx, afterSidecars, exifWritten>>
    /\ UNCHANGED resFrame

\* lines 359-370: os.Open or ioutil.ReadAll fails and the function returns
SidecarUnreadable ==
    /\ rPc = "sidecars"
    /\ jIdx <= Len(jsonFileList)
    /\ rPc' = "filter"
    /\ metadata' = ZeroMetadata
    /\ afterSidecars' = myMap
    /\ UNCHANGED <<myMap, tree, walkFailed, jsonFileList, mediaFileList, jIdx,
                   exifMEdiaFileList, eIdx, sidecarWritten, exifWritten>>
    /\ UNCHANGED resFrame

\* lines 355 and 383: the list is exhausted and the function returns
SidecarsDone ==
    /\ rPc = "sidecars"
    /\ jIdx > Len(jsonFileList)
    /\ rPc' = "filter"
    /\ metadata' = ZeroMetadata
    /\ afterSidecars' = myMap
    /\ UNCHANGED <<myMap, tree, walkFailed, jsonFileList, mediaFileList, jIdx,
                   exifMEdiaFileList, eIdx, sidecarWritten, exifWritten>>
    /\ UNCHANGED resFrame

\* getMediaFilesWithoutMedtadataJsonFiles returning every media file
getMediaFilesWithoutMedtadataJsonFiles_NoFilter(list, m) == list

\* getMediaFilesWithoutMedtadataJsonFiles (lines 385-398)
RECURSIVE getMediaFilesWithoutMedtadataJsonFiles(_, _)
getMediaFilesWithoutMedtadataJsonFiles(list, m) ==
    IF list = <<>> THEN <<>>
    ELSE (IF Head(list) \notin DOMAIN m THEN <<Head(list)>> ELSE <<>>)
         \o getMediaFilesWithoutMedtadataJsonFiles(Tail(list), m)

\* line 466
FilterMedia ==
    /\ rPc = "filter"
    /\ exifMEdiaFileList' = getMediaFilesWithoutMedtadataJsonFiles(mediaFileList, myMap)
    /\ eIdx' = 1
    /\ rPc' = "exif"
    /\ UNCHANGED <<myMap, tree, walkFailed, jsonFileList, mediaFileList, jIdx, metadata,
                   afterSidecars, sidecarWritten, exifWritten>>
    /\ UNCHANGED resFrame

\* the mode of what path names, following a symbolic link (os.Open, file.Stat)
IsDirectory(path) ==
    \E i \in 1..Len(TreePool) :
        TreePool[i].path = path /\ TreePool[i].mode \in {"dir", "dirlink"}

\* time.Time's zero value, as <<year, month>>
ZeroTime == <<1, 1>>

\* what metadata.Parse may return for a media file (line 423): an error, or the
\* two dates the program reads
ExifResults ==
    [err : BOOLEAN,
     DateTimeCreated : {ZeroTime, <<2023, 5>>},
     DateTimeOriginal : {ZeroTime, <<2024, 1>>}]

\* line 403
defaultTimestamp == <<"0","0","0","1","/","0","1">>

\* lines 424-438: the bucket for a result of metadata.Parse
exifTimestamp(meta) ==
    IF meta.err THEN defaultTimestamp
    ELSE IF meta.DateTimeCreated = ZeroTime
         THEN FormatYearMonth(meta.DateTimeOriginal[1], meta.DateTimeOriginal[2])
         ELSE FormatYearMonth(meta.DateTimeCreated[1], meta.DateTimeCreated[2])

\* lines 441-446: the entry is added unless the key exists
exifStore(m, photoPath, timeStamp) ==
    IF photoPath \notin DOMAIN m THEN MapSet(m, photoPath, timeStamp) ELSE m

\* lines 404-406 and 417-420: a .DS_Store file, or a directory, is skipped
ExifSkip ==
    /\ rPc = "exif"
    /\ eIdx <= Len(exifMEdiaFileList)
    /\ \/ Ext(Base(exifMEdiaFileList[eIdx])) = DSStoreExt
       \/ IsDirectory(exifMEdiaFileList[eIdx])
    /\ eIdx' = eIdx + 1
    /\ UNCHANGED <<myMap, rPc, tree, walkFailed, jsonFileList, mediaFileList, jIdx,
                   metadata, exifMEdiaFileList, afterSidecars, sidecarWritten, exifWritten>>
    /\ UNCHANGED resFrame

\* lines 409-413: os.Open fails and the function returns
ExifUnopenable ==
    /\ rPc = "exif"
    /\ eIdx <= Len(exifMEdiaFileList)
    /\ Ext(Base(exifMEdiaFileList[eIdx])) # DSStoreExt
    /\ rPc' = "normalize"
    /\ UNCHANGED <<myMap, tree, walkFailed, jsonFileList, mediaFileList, jIdx, metadata,
                   exifMEdiaFileList, eIdx, afterSidecars, sidecarWritten, exifWritten>>
    /\ UNCHANGED resFrame

\* lines 401-446, one iteration on a regular file that opens
ExifResolve ==
    /\ rPc = "exif"
    /\ eIdx <= Len(exifMEdiaFileList)
    /\ Ext(Base(exifMEdiaFileList[eIdx])) # DSStoreExt
    /\ ~IsDirectory(exifMEdiaFileList[eIdx])
    /\ \E meta \in ExifResults :
          myMap' = exifStore(myMap, exifMEdiaFileList[eIdx], exifTimestamp(meta))
    /\ exifWritten' = IF myMap' = myMap THEN exifWritten
                      ELSE exifWritten \cup {exifMEdiaFileList[eIdx]}
    /\ eIdx' = eIdx + 1
    /\ UNCHANGED <<rPc, tree, walkFailed, jsonFileList, mediaFileList, jIdx, metadata,
                   exifMEdiaFileList, afterSidecars, sidecarWritten>>
    /\ UNCHANGED resFrame

\* lines 401 and 448: the list is exhausted and the function returns
ExifDone ==
    /\ rPc = "exif"
    /\ eIdx > Len(exifMEdiaFileList)
    /\ rPc' = "normalize"
    /\ UNCHANGED <<myMap, tree, walkFailed, jsonFileList, mediaFileList, jIdx, metadata,
                   exifMEdiaFileList, eIdx, afterSidecars, sidecarWritten, exifWritten>>
    /\ UNCHANGED resFrame

Year0001Slash == <<"0","0","0","1","/">>
Year2000Slash == <<"2","0","0","0","/">>

\* the loop over myMap writing month 01 whatever the month was
normalize_Month01(m) ==
    [photoPath \in DOMAIN m |->
        IF Contains(m[photoPath], Year0001Slash)
        THEN Year2000Slash \o <<"0","1">>
        ELSE m[photoPath]]

\* lines 471-477: the loop over myMap
normalize(m) ==
    [photoPath \in DOMAIN m |->
        IF Contains(m[photoPath], Year0001Slash)
        THEN Year2000Slash \o Split(m[photoPath], Slash)[2]
        ELSE m[photoPath]]

\* lines 471-479
Normalize ==
    /\ rPc = "normalize"
    /\ myMap' = normalize(myMap)
    /\ rPc' = "done"
    /\ UNCHANGED <<tree, walkFailed, jsonFileList, mediaFileList, jIdx, metadata,
                   exifMEdiaFileList, eIdx, afterSidecars, sidecarWritten, exifWritten>>
    /\ UNCHANGED resFrame

(***************************************************************************)
(* SpecResolve: main up to the return of processDirectory (lines 702-721), *)
(* for every source tree of at most MaxEntries entries.                    *)
(***************************************************************************)
InitResolve ==
    /\ parallelUploads = 1
    /\ myMap = <<>>
    /\ directories = <<>>
    /\ UploadIdle("processDirectory")
    /\ rPc = "scan"
    /\ tree \in Trees
    /\ walkFailed = FALSE
    /\ jsonFileList = <<>>
    /\ mediaFileList = <<>>
    /\ jIdx = 0
    /\ metadata = ZeroMetadata
    /\ exifMEdiaFileList = <<>>
    /\ eIdx = 0
    /\ afterSidecars = <<>>
    /\ sidecarWritten = {}
    /\ exifWritten = {}

NextResolve ==
    \/ getMediaFileList
    \/ SidecarResolve
    \/ SidecarUnreadable
    \/ SidecarsDone
    \/ FilterMedia
    \/ ExifSkip
    \/ ExifUnopenable
    \/ ExifResolve
    \/ ExifDone
    \/ Normalize

SpecResolve == InitResolve /\ [][NextResolve]_vars

(***************************************************************************)
(* Properties of processDirectory (specification SpecResolve).             *)
(***************************************************************************)
\* a sidecar has just been resolved: metadata holds what was parsed from
\* jsonFileList[jIdx - 1]
SidecarJustResolved == rPc = "sidecars" /\ jIdx > 1

LastSidecarKey == Join(Dir(jsonFileList[jIdx - 1]), metadata.Title)

\* C8 (as claimed): the bucket stored for a sidecar's media path is the
\* year/month of photoTakenTime when that parses, and otherwise the year/month
\* of creationTime when that parses.
C8_SidecarBucket ==
    SidecarJustResolved =>
        LET taken == extractDateFolder(metadata.PhotoTakenTime)
            creation == extractDateFolder(metadata.CreationTime)
        IN /\ taken.ok =>
                 /\ LastSidecarKey \in DOMAIN myMap
                 /\ myMap[LastSidecarKey] = taken.folder
           /\ (~taken.ok /\ creation.ok) =>
                 /\ LastSidecarKey \in DOMAIN myMap
                 /\ myMap[LastSidecarKey] = creation.folder

\* a bucket of the form YYYY/MM
IsBucket(b) ==
    /\ Len(b) = 7
    /\ b[5] = Slash
    /\ \A i \in {1, 2, 3, 4, 6, 7} : IsDigit(b[i])

\* C9 (as claimed): when processDirectory is over every key of myMap maps to a
\* bucket of the form YYYY/MM, and a sidecar whose two timestamps are both
\* unparsable adds no entry (an entry under its key is an earlier, well-formed
\* one).
C9_BucketsWellFormed ==
    /\ rPc = "done" => \A k \in DOMAIN myMap : IsBucket(myMap[k])
    /\ (/\ SidecarJustResolved
        /\ ~extractDateFolder(metadata.PhotoTakenTime).ok
        /\ ~extractDateFolder(metadata.CreationTime).ok
        /\ LastSidecarKey \in DOMAIN myMap) => IsBucket(myMap[LastSidecarKey])

\* C10: the fallback resolver is given no path that is a key of myMap after
\* sidecar resolution, it changes no entry that exists, and no key is written
\* by both resolvers.
C10_ResolversDisjoint ==
    /\ sidecarWritten \cap exifWritten = {}
    /\ rPc \in {"exif", "normalize"} =>
          /\ \A i \in 1..Len(exifMEdiaFileList) :
                exifMEdiaFileList[i] \notin DOMAIN afterSidecars
          /\ \A k \in DOMAIN afterSidecars :
                k \in DOMAIN myMap /\ myMap[k] = afterSidecars[k]

C10_Witness ==
    /\ rPc = "normalize"
    /\ exifWritten # {}
    /\ \E i \in 1..Len(mediaFileList) : mediaFileList[i] \in sidecarWritten
    /\ \E i \in 1..Len(mediaFileList) : mediaFileList[i] \in exifWritten

\* the year and the month component of a bucket (the parts around its slash)
YearOf(b) == Split(b, Slash)[1]
MonthOf(b) == IF Len(Split(b, Slash)) >= 2 THEN Split(b, Slash)[2] ELSE <<>>

Year0001 == <<"0","0","0","1">>

\* the step of processDirectory that runs the loop of lines 471-477
NormalizeStep == rPc = "normalize" /\ rPc' = "done"

\* C11: the normalization loop takes every entry whose bucket has year 0001 to
\* year 2000 with the same month, and leaves no entry with year 0001.
C11_Year0001Rewritten ==
    [][NormalizeStep =>
          /\ \A k \in DOMAIN myMap :
                YearOf(myMap[k]) = Year0001 =>
                    /\ k \in DOMAIN myMap'
                    /\ myMap'[k] = Year2000Slash \o MonthOf(myMap[k])
          /\ \A k \in DOMAIN myMap' : YearOf(myMap'[k]) # Year0001]_vars

\* a sidecar dated 0001-03 has been normalized to 2000/03
C11_Witness ==
    /\ rPc = "done"
    /\ \E k \in DOMAIN myMap : myMap[k] = <<"2","0","0","0","/","0","3">>

\* C19 (as claimed): the normalization loop keeps the keys of myMap and
\* changes no entry whose year is not exactly 0001, a five-digit year ending
\* in 0001 included.
C19_OnlyYear0001Rewritten ==
    [][NormalizeStep =>
          /\ DOMAIN myMap' = DOMAIN myMap
          /\ \A k \in DOMAIN myMap :
                YearOf(myMap[k]) # Year0001 => myMap'[k] = myMap[k]]_vars

\* path is an element of list
InList(list, path) == \E i \in 1..Len(list) : list[i] = path

\* C13 (as claimed): a sidecar or a media file that cannot be opened or read
\* stops neither resolver: when a resolver has returned, the only item of its
\* list it may have left unresolved is the faulty one, so no item after it is
\* left.
C13_ItemFaultIsolated ==
    /\ rPc \in {"filter", "exif", "normalize", "done"} => jIdx >= Len(jsonFileList)
    /\ rPc \in {"normalize", "done"} => eIdx >= Len(exifMEdiaFileList)

\* C20: when the walk has returned, no directory is in a list, no path is in
\* both lists, a listed file is a sidecar only if it is a .json file with
\* three dots and a raw media file only if it is not a .json file, and after
\* a walk without error every regular file is in the list of its class, a
\* .json file without three dots in neither.
C20_Classification ==
    rPc # "scan" =>
        /\ \A i \in 1..Len(jsonFileList) : ~InList(mediaFileList, jsonFileList[i])
        /\ \A i \in tree :
              LET path == TreePool[i].path
                  isJson == Ext(Base(path)) = JsonExt
                  threeDots == Count(Base(path), Dot) = 3
              IN /\ TreePool[i].mode = "dir" =>
                       ~InList(jsonFileList, path) /\ ~InList(mediaFileList, path)
                 /\ TreePool[i].mode = "regular" =>
                       /\ InList(jsonFileList, path) => isJson /\ threeDots
                       /\ InList(mediaFileList, path) => ~isJson
                       /\ (isJson /\ ~threeDots) =>
                             ~InList(jsonFileList, path) /\ ~InList(mediaFileList, path)
                       /\ ~walkFailed =>
                             /\ (isJson /\ threeDots) => InList(jsonFileList, path)
                             /\ ~isJson => InList(mediaFileList, path)
        /\ \A i \in 1..Len(jsonFileList) :
              \E j \in tree : TreePool[j].path = jsonFileList[i]
        /\ \A i \in 1..Len(mediaFileList) :
              \E j \in tree : TreePool[j].path = mediaFileList[i]

\* a tree with a media file, its sidecar, a .json file with one dot and a
\* directory has been walked without error
C20_Witness ==
    /\ rPc = "sidecars"
    /\ ~walkFailed
    /\ tree = {2, 3, 6, 8}
    /\ Len(jsonFileList) = 1
    /\ Len(mediaFileList) = 1

(***************************************************************************)
(* Further properties of uploadMediaFilesToNextcloud (specification Spec). *)
(***************************************************************************)
\* the directory goroutines that are inside createNestedDirectories
DirJobsInFlight == {w \in DirWorkers : dpc[w] \in {"create", "mkcol"}}

\* the upload workers that are inside the body of their loop
TransfersInFlight == {w \in DirWorkers : upc[w] \notin {"off", "recv", "exit"}}

\* C14: a directory job that returned an error holds no goroutine and is not
\* queued again, so it sends no further request; ended jobs, failed ones
\* included, are exactly the ones wgDir has counted off; when the goroutines
\* are idle and the channel is drained the barrier is open; and past the
\* barrier every directory job has ended.
C14_FailedDirJobIsolated ==
    /\ \A d \in Range(myMap) :
          dirEnded[d] = "error" =>
              /\ \A w \in DirWorkers : dJob[w] # d
              /\ \A i \in 1..Len(dirJobs) : dirJobs[i] # d
    /\ mainPc # "start" =>
          wgDir = Cardinality({d \in Range(myMap) : dirEnded[d] = "running"})
    /\ (/\ mainPc = "waitDirs"
        /\ parallelUploads >= 1
        /\ dirJobs = <<>>
        /\ DirJobsInFlight = {}) => wgDir = 0
    /\ mainPc \in {"startMedia", "aggregate", "done"} =>
          \A d \in Range(myMap) : dirEnded[d] # "running"

\* the job of 2024/01 failed on its second segment, the job of 2024/02 ended
\* well, and the run went through the upload phase
C14_Witness ==
    /\ mainPc = "done"
    /\ {B2024_01, B2024_02} \subseteq Range(myMap)
    /\ dirEnded[B2024_01] = "error"
    /\ dirEnded[B2024_02] = "nil"
    /\ <<"/","2","0","2","4">> \in collections
    /\ <<"/","2","0","2","4","/","0","1">> \notin collections

\* where the job of path p is: not yet sent, in the channel, held by a worker,
\* or over (its progress unit sent)
JobCopies(p) ==
    (IF p \in toSend THEN 1 ELSE 0)
    + Cardinality({i \in 1..Len(jobs) : jobs[i].Path = p})
    + Cardinality({w \in DirWorkers : uJob[w].Path = p})
    + units[p]

\* C15: from the start of the upload phase each entry of myMap is at exactly
\* one place (to be sent, queued, held by one worker, or over); with one worker
\* or more every entry is over when the run is; and when every job was answered
\* a success on its first request one PUT was sent per entry.
C15_OneJobPerEntry ==
    /\ mainPc \in {"aggregate", "done"} =>
          \A p \in DOMAIN myMap : JobCopies(p) = 1
    /\ (mainPc = "done" /\ parallelUploads >= 1) =>
          \A p \in DOMAIN myMap : units[p] = 1
    /\ (mainPc = "done" /\ \A p \in DOMAIN myMap : resp[p] = <<"success">>) =>
          \A p \in DOMAIN myMap : putCount[p] = 1

C15_Witness ==
    /\ mainPc = "done"
    /\ parallelUploads = 2
    /\ Cardinality(DOMAIN myMap) = 2
    /\ \A p \in DOMAIN myMap : resp[p] = <<"success">> /\ putCount[p] = 1

\* C17: while the MKCOL of a child segment is in flight, the MKCOL of its
\* parent was answered to the same job with a nil result, and the parent
\* exists on the server.
C17_ParentBeforeChild ==
    \A w \in DirWorkers :
        (dpc[w] = "mkcol" /\ ParentOf(dPath[w]) # <<>>) =>
            /\ ParentOf(dPath[w]) \in dOk[w]
            /\ ParentOf(dPath[w]) \in collections

\* two jobs have their child segment in flight at once
C17_Witness ==
    /\ \A w \in DirWorkers : dpc[w] = "mkcol" /\ ParentOf(dPath[w]) # <<>>
    /\ created[<<"/","2","0","2","4">>] = 1

\* C18: no more directory jobs and no more transfers are in flight than
\* parallelUploads.
C18_BoundedInFlight ==
    /\ Cardinality(DirJobsInFlight) <= parallelUploads
    /\ Cardinality(TransfersInFlight) <= parallelUploads

\* the pool is full: every worker of a pool of MaxParallel has a PUT in flight
C18_Witness ==
    /\ parallelUploads = MaxParallel
    /\ \A w \in DirWorkers : upc[w] = "put"

(***************************************************************************)
(* SpecFair: Spec under fair scheduling.  The Go scheduler runs every      *)
(* runnable goroutine again, and every request sent is answered (a status, *)
(* or a transport error), so the run does not stop while a step of some    *)
(* goroutine, or an answer, is possible.                                   *)
(***************************************************************************)
SpecFair == Init /\ [][Next]_vars /\ WF_vars(Next)

\* the run is over: every directory job and every upload job has ended, the
\* progress channel is closed and drained, and main has printed the counters
RunOver ==
    /\ mainPc = "done"
    /\ \A d \in Range(myMap) : dirEnded[d] # "running"
    /\ \A p \in DOMAIN myMap : units[p] = 1
    /\ progressClosed
    /\ progressChan = <<>>
    /\ finishCounter = Cardinality(DOMAIN myMap)

\* C16: with one worker or more, every fair run is eventually over.
C16_Terminates == (parallelUploads >= 1) => <>RunOver

\* a run with two workers, a failed directory job and a retried upload is over
C16_Witness ==
    /\ RunOver
    /\ parallelUploads = 2
    /\ \E d \in Range(myMap) : dirEnded[d] = "error"
    /\ \E p \in DOMAIN myMap : retries[p] >= 1

(***************************************************************************)
(* SpecRun: the whole of main (lines 702-729), processDirectory and then   *)
(* uploadMediaFilesToNextcloud on the map it built, for the source trees   *)
(* /p = {.DS_Store, a.j.s.json} and /p = {a.j, sub/}.                      *)
(***************************************************************************)
RunTrees == {{1, 3}, {2, 8}}

\* lines 721-725: processDirectory has returned (its local variables are
\* gone); main computes the directories and calls uploadMediaFilesToNextcloud
CallUpload ==
    /\ mainPc = "processDirectory"
    /\ rPc = "done"
    /\ directories' \in getUniqueDirectoryToBecreatedOnNextCloud(myMap)
    /\ mainPc' = "start"
    /\ dirEnded' = [d \in Range(myMap) |-> "running"]
    /\ putCount' = [p \in DOMAIN myMap |-> 0]
    /\ resp' = [p \in DOMAIN myMap |-> <<>>]
    /\ retries' = [p \in DOMAIN myMap |-> 0]
    /\ succIncs' = [p \in DOMAIN myMap |-> 0]
    /\ failIncs' = [p \in DOMAIN myMap |-> 0]
    /\ units' = [p \in DOMAIN myMap |-> 0]
    /\ jsonFileList' = <<>>
    /\ mediaFileList' = <<>>
    /\ jIdx' = 0
    /\ metadata' = ZeroMetadata
    /\ exifMEdiaFileList' = <<>>
    /\ eIdx' = 0
    /\ UNCHANGED <<parallelUploads, myMap, successfullCounter, failedCounter, rPc, tree,
                   walkFailed, afterSidecars, sidecarWritten, exifWritten>>
    /\ UNCHANGED <<dirJobs, dirJobsClosed, dirSent, wgDir, dpc, dParts, dPath, dJob,
                   collections, faults, dOk, created, wrongAbandon>>
    /\ UNCHANGED <<jobs, jobsClosed, toSend, progressChan, progressClosed, wgMedia, upc,
                   uJob, attempt, tmp, finishCounter, panicked>>

InitRun ==
    /\ InitResolve
    /\ tree \in RunTrees

NextRun ==
    \/ getMediaFileList
    \/ SidecarResolve
    \/ SidecarUnreadable
    \/ SidecarsDone
    \/ FilterMedia
    \/ ExifSkip
    \/ ExifUnopenable
    \/ ExifResolve
    \/ ExifDone
    \/ Normalize
    \/ CallUpload
    \/ StartDirWorkers
    \/ SendDir
    \/ CloseDirJobs
    \/ WaitDirs
    \/ \E w \in DirWorkers : DirReceive(w)
    \/ \E w \in DirWorkers : MkcolRequest(w)
    \/ \E w \in DirWorkers : MkcolResponse(w)
    \/ \E w \in DirWorkers : DirJobDone(w)
    \/ StartMediaWorkers
    \/ SendJob
    \/ CloseJobs
    \/ CloseProgress
    \/ Aggregate
    \/ Report
    \/ \E w \in DirWorkers : WorkerReceive(w)
    \/ \E w \in DirWorkers : WorkerExit(w)
    \/ \E w \in DirWorkers : PutRequest(w)
    \/ \E w \in DirWorkers : LocalError(w)
    \/ \E w \in DirWorkers : PutResponse(w)
    \/ \E w \in DirWorkers : ReadCounter(w)
    \/ \E w \in DirWorkers : WriteCounter(w)
    \/ \E w \in DirWorkers : SendProgress(w)

SpecRun == InitRun /\ [][NextRun]_vars

\* C12 (as claimed): once filepath.Walk has ended on an error, no MKCOL and no
\* PUT request is sent.
C12_WalkErrorFatal ==
    walkFailed =>
        /\ \A w \in DirWorkers : dpc[w] # "mkcol" /\ upc[w] # "put"
        /\ \A p \in DOMAIN putCount : putCount[p] = 0
        /\ collections = {}

(***************************************************************************)
(* Properties of uploadFile's error returns and of PARALLEL_UPLOADS = 0    *)
(* (specification Spec).                                                   *)
(***************************************************************************)
\* the job of path p received a status that ended it: a success, a hard
\* failure, or the third transient answer
EndedOnStatus(p) ==
    /\ resp[p] # <<>>
    /\ \/ Last(resp[p]) \in {"success", "other"}
       \/ resp[p] = ThreeTransient

\* C21: a transport error is the last answer of its job and no PUT follows
\* it; a job that ended on an error return of uploadFile (os.Open,
\* http.NewRequest or client.Do failed) incremented no counter and sent one
\* progress unit; and when the run is over the two counters sum to at most
\* finishCounter = len(myMap), to exactly that only if every job ended on a
\* status.
C21_ErrorReturnUncounted ==
    /\ \A p \in DOMAIN myMap :
          /\ \A i \in 1..Len(resp[p]) :
                resp[p][i] = "err" => i = Len(resp[p]) /\ putCount[p] = i
          /\ (JobEnded(p) /\ ~EndedOnStatus(p)) =>
                /\ succIncs[p] = 0
                /\ failIncs[p] = 0
                /\ units[p] = 1
                /\ putCount[p] = Len(resp[p])
    /\ mainPc = "done" =>
          /\ finishCounter = Cardinality(DOMAIN myMap)
          /\ successfullCounter + failedCounter <= finishCounter
          /\ successfullCounter + failedCounter = finishCounter =>
                \A p \in DOMAIN myMap : EndedOnStatus(p)

\* the run is over: one job failed before any request was sent, the other on
\* a transport error; two progress units, no counter incremented
C21_Witness ==
    /\ mainPc = "done"
    /\ \E p \in DOMAIN myMap : resp[p] = <<>> /\ putCount[p] = 0
    /\ \E p \in DOMAIN myMap : resp[p] = <<"err">>
    /\ finishCounter = 2
    /\ successfullCounter + failedCounter = 0

\* C22: with parallelUploads = 0 and a non-empty myMap no goroutine of either
\* pool is ever started, no directory job is taken, wgDir stays at
\* len(directories) >= 1 so main never gets past wgDir.Wait(), and no MKCOL
\* and no PUT is sent: the run never reaches the upload phase or its report.
C22_ZeroWorkersNeverEnds ==
    (parallelUploads = 0 /\ DOMAIN myMap # {}) =>
        /\ \A w \in DirWorkers : dpc[w] = "off" /\ upc[w] = "off"
        /\ mainPc \in {"start", "sendDirs", "waitDirs"}
        /\ mainPc # "start" => wgDir = Len(directories) /\ wgDir >= 1
        /\ \A d \in Range(myMap) : dirEnded[d] = "running"
        /\ \A p \in DOMAIN myMap : putCount[p] = 0 /\ units[p] = 0
        /\ collections = {}
        /\ jobs = <<>>

\* main is blocked in wgDir.Wait(): two directories are queued in the closed
\* channel and there is no goroutine to receive them
C22_Witness ==
    /\ parallelUploads = 0
    /\ mainPc = "waitDirs"
    /\ dirJobsClosed
    /\ Len(dirJobs) = 2
    /\ wgDir = 2
====
